---- MODULE Spec2Model ----
(***************************************************************************)
(* A model of CrowdSonic's stream-to-pixels pipeline:                      *)
(*   - APIClient's stream connection (services/api.ts),                    *)
(*   - CanvasViewport's stream effect, frame handler, spectrum and         *)
(*     waterfall renderers (components/CanvasViewport.tsx),                *)
(*   - FrequencySettingsPanel's staged range editing (same file),          *)
(*   - ServerStorageService's list of servers (serverStorage).             *)
(* Frequencies are whole kHz, magnitudes whole dB, time whole ms.          *)
(***************************************************************************)
EXTENDS Integers, Sequences, FiniteSets, TLC

VARIABLES
    mounted,            \* the CanvasViewport is mounted
    isConnected,        \* App state (App.tsx:9)
    isPlaying,          \* App state (App.tsx:11)
    currentDevice,      \* App state (App.tsx:12); "" is no device
    apiClient,          \* the APIClient instance App currently passes down
    baseUrlOk,          \* per APIClient: its baseUrl makes a URL EventSource accepts
    eventSource,        \* per APIClient: this.eventSource, 0 is null
    conns,              \* every EventSource ever constructed, in creation order
    ops,                \* the calls made by the handler that ran last
    now,                \* Date.now()
    frameCount,         \* frameCount.current
    lastTime,           \* lastTime.current
    statusData,         \* the last status handed to onStatusUpdate
    showChart,          \* showFrequency / showSpectrogram
    spectrumCanvas,     \* what the last renderFrequencySpectrum left on its canvas
    waterfallData,      \* waterfallDataRef.current
    waterfallFreqBins,  \* waterfallFreqBinsRef.current
    written,            \* history: the slices written since the last allocation
    settings,           \* frequencySettings / spectrogramSettings
    showSettings,       \* showFrequencySettings / showSpectrogramSettings
    tempSettings,       \* per panel: tempSettings
    error,              \* per panel: error
    initialized,        \* per panel: initializedRef.current
    originalSettings,   \* per panel: originalSettingsRef.current
    canvasSize,         \* canvasSize, in pixels
    containerRect,      \* the box the canvas container has now, in half pixels
    timer,              \* the timeout set at mount is pending
    resizeTimeout,      \* the debounce timeout is pending
    observed,           \* the ResizeObserver watches the canvas container
    localStorage,       \* the item 'crowdsonic-servers' of localStorage
    defaultServers      \* the objects of the array DEFAULT_SERVERS, in memory

vars == <<mounted, isConnected, isPlaying, currentDevice, apiClient, baseUrlOk,
          eventSource, conns, ops, now, frameCount, lastTime, statusData,
          showChart,
          spectrumCanvas, waterfallData, waterfallFreqBins, written, settings,
          showSettings, tempSettings, error, initialized, originalSettings,
          canvasSize, containerRect, timer, resizeTimeout, observed,
          localStorage, defaultServers>>

appVars    == <<isConnected, isPlaying, currentDevice, apiClient, baseUrlOk>>
streamVars == <<eventSource, conns>>
metricVars == <<frameCount, lastTime, statusData>>
renderVars == <<spectrumCanvas, waterfallData, waterfallFreqBins, written>>
panelVars  == <<settings, showSettings, tempSettings, error, initialized,
                originalSettings>>
sizerVars  == <<canvasSize, containerRect, timer, resizeTimeout, observed>>
storageVars == <<localStorage, defaultServers>>

----------------------------------------------------------------------------
\* Bounds of the model.

\* APIClient instances App creates over a run (one per base URL change).
MaxClients == 2

\* EventSource objects constructed over a run.
MaxConns == 2

\* Frames counted in one metrics window.
MaxFrameCount == 5

\* The clock stops advancing here (ms).
MaxTime == 2000

\* Rows of the waterfall buffer; the source keeps 200 (useState(200)), the
\* model scales the depth down so that a run can fill and overflow it.
waterfallHeight == 3

\* Servers the stored list holds at most.
MaxServers == 3

Clients == 1..MaxClients

Devices == {"", "mic1", "mic2"}

Charts == {"frequency", "spectrogram"}

----------------------------------------------------------------------------
\* APIClient (services/api.ts).  A store st is [es, conns, ops, urlOk]: the
\* eventSource field of every client, the EventSource objects, the calls made
\* so far by the running handler, and which clients have a usable baseUrl.

Call(name, n) == [op |-> name, arg |-> n]

\* A disconnect that closes the EventSource but keeps the reference.
disconnectFromStreamKeepsRef(st, c) ==
    IF st.es[c] # 0
    THEN [st EXCEPT !.conns[st.es[c]] = [@ EXCEPT !.readyState = "closed",
                                                  !.closeCalls = @ + 1],
                    !.ops = Append(@, Call("close", st.es[c]))]
    ELSE st

\* A disconnect that forgets the EventSource without closing it.
disconnectFromStreamNoClose(st, c) ==
    IF st.es[c] # 0 THEN [st EXCEPT !.es[c] = 0] ELSE st

\* disconnectFromStream(): close and forget the held EventSource, if any.
disconnectFromStream(st, c) ==
    IF st.es[c] # 0
    THEN [st EXCEPT !.es[c] = 0,
                    !.conns[st.es[c]] = [@ EXCEPT !.readyState = "closed",
                                                  !.closeCalls = @ + 1],
                    !.ops = Append(@, Call("close", st.es[c]))]
    ELSE st

\* new EventSource(url) and the assignment of the three handlers, inside the
\* try block of a connect method: the constructor throws on a URL it cannot
\* parse, and the catch block hands the exception to onError.
NewEventSource(st, c, kind, deviceId) ==
    IF st.urlOk[c]
    THEN [st EXCEPT !.es[c] = Len(st.conns) + 1,
                    !.conns = Append(@,
                      [client |-> c, kind |-> kind, device |-> deviceId,
                       readyState |-> "connecting", closeCalls |-> 0]),
                    !.ops = Append(@, Call("open", Len(st.conns) + 1))]
    ELSE [st EXCEPT !.ops = Append(@, Call("onError", 0))]

\* A connect that does not close the existing connection first.
connectToStreamKeepsOld(st, c) == NewEventSource(st, c, "global", "")

\* connectToStream(onData, onError)
connectToStream(st, c) ==
    NewEventSource(disconnectFromStream(st, c), c, "global", "")

\* connectToDeviceStream(deviceId, onData, onError)
connectToDeviceStream(st, c, deviceId) ==
    NewEventSource(disconnectFromStream(st, c), c, "device", deviceId)

----------------------------------------------------------------------------
\* CanvasViewport's stream effect, deps [isConnected, isPlaying,
\* currentDevice, apiClient]: the cleanup of the previous run (which closed
\* over the previous apiClient), then the body with the new values.

StreamEffectBody(st, connected, playing, device, client) ==
    IF connected /\ playing
    THEN IF device # ""
         THEN connectToDeviceStream(st, client, device)
         ELSE connectToStream(st, client)
    ELSE disconnectFromStream(st, client)

\* An effect without a cleanup.
StreamEffectCleanupNone(st, client) == st

\* return () => { apiClient.disconnectFromStream(); }
StreamEffectCleanup(st, client) == disconnectFromStream(st, client)

StreamEffect(st, oldClient, connected, playing, device, client) ==
    StreamEffectBody(StreamEffectCleanup(st, oldClient),
                     connected, playing, device, client)

Store(urlOk) ==
    [es |-> eventSource, conns |-> conns, ops |-> <<>>, urlOk |-> urlOk]

\* A change of the effect's dependencies re-runs the effect.
DepsChange(connected, playing, device, client, urlOk) ==
    LET st == StreamEffect(Store(urlOk), apiClient, connected, playing,
                           device, client)
    IN  /\ mounted
        /\ Len(st.conns) <= MaxConns
        /\ eventSource' = st.es
        /\ conns' = st.conns
        /\ ops' = st.ops

\* testConnection(): setIsConnected(isHealthy)
TestConnection(healthy) ==
    /\ healthy # isConnected
    /\ isConnected' = healthy
    /\ DepsChange(healthy, isPlaying, currentDevice, apiClient, baseUrlOk)
    /\ UNCHANGED storageVars
    /\ UNCHANGED <<mounted, sizerVars, isPlaying, currentDevice, apiClient, baseUrlOk, now>>
    /\ UNCHANGED <<metricVars, renderVars, panelVars, showChart>>

\* A play button that also starts a new metrics window.
HandlePlayResetting ==
    /\ isPlaying' = ~isPlaying
    /\ DepsChange(isConnected, ~isPlaying, currentDevice, apiClient, baseUrlOk)
    /\ frameCount' = 0
    /\ lastTime' = now
    /\ UNCHANGED storageVars
    /\ UNCHANGED <<mounted, sizerVars, isConnected, currentDevice, apiClient, baseUrlOk, now>>
    /\ UNCHANGED <<statusData, renderVars, panelVars, showChart>>

\* handlePlay(): setIsPlaying(!isPlaying)
HandlePlay ==
    /\ isPlaying' = ~isPlaying
    /\ DepsChange(isConnected, ~isPlaying, currentDevice, apiClient, baseUrlOk)
    /\ UNCHANGED storageVars
    /\ UNCHANGED <<mounted, sizerVars, isConnected, currentDevice, apiClient, baseUrlOk, now>>
    /\ UNCHANGED <<metricVars, renderVars, panelVars, showChart>>

\* A device switch that also empties the waterfall.
HandleDeviceChangeClearing(deviceId) ==
    /\ deviceId # currentDevice
    /\ currentDevice' = deviceId
    /\ DepsChange(isConnected, isPlaying, deviceId, apiClient, baseUrlOk)
    /\ waterfallData' = <<>>
    /\ waterfallFreqBins' = 0
    /\ UNCHANGED storageVars
    /\ UNCHANGED <<mounted, sizerVars, isConnected, isPlaying, apiClient, baseUrlOk, now>>
    /\ UNCHANGED <<metricVars, spectrumCanvas, written, panelVars, showChart>>

\* handleDeviceChange(deviceId): setCurrentDevice(deviceId)
HandleDeviceChange(deviceId) ==
    /\ deviceId # currentDevice
    /\ currentDevice' = deviceId
    /\ DepsChange(isConnected, isPlaying, deviceId, apiClient, baseUrlOk)
    /\ UNCHANGED storageVars
    /\ UNCHANGED <<mounted, sizerVars, isConnected, isPlaying, apiClient, baseUrlOk, now>>
    /\ UNCHANGED <<metricVars, renderVars, panelVars, showChart>>

\* handleBaseUrlChange(newUrl): setBaseUrl(newUrl), and useMemo makes a new
\* APIClient for the new URL.
HandleBaseUrlChange(urlOk) ==
    /\ apiClient < MaxClients
    /\ apiClient' = apiClient + 1
    /\ baseUrlOk' = [baseUrlOk EXCEPT ![apiClient + 1] = urlOk]
    /\ DepsChange(isConnected, isPlaying, currentDevice, apiClient + 1,
                  [baseUrlOk EXCEPT ![apiClient + 1] = urlOk])
    /\ UNCHANGED storageVars
    /\ UNCHANGED <<mounted, sizerVars, isConnected, isPlaying, currentDevice, now>>
    /\ UNCHANGED <<metricVars, renderVars, panelVars, showChart>>

\* Teardown of the view: the cleanups of the stream effect (a last
\* disconnect) and of the sizing effect (both timeouts cleared, the observer
\* disconnected, the resize listener removed).
Unmount ==
    /\ mounted
    /\ mounted' = FALSE
    /\ UNCHANGED storageVars
    /\ LET st == StreamEffectCleanup(Store(baseUrlOk), apiClient)
       IN  /\ eventSource' = st.es
           /\ conns' = st.conns
           /\ ops' = st.ops
    /\ timer' = FALSE
    /\ resizeTimeout' = FALSE
    /\ observed' = FALSE
    /\ UNCHANGED <<appVars, now, metricVars, renderVars, panelVars, showChart,
                   canvasSize, containerRect>>

----------------------------------------------------------------------------
\* The EventSource transport.

\* The connection is established: onopen logs.
EsOpen(k) ==
    /\ k \in 1..Len(conns)
    /\ conns[k].readyState = "connecting"
    /\ conns' = [conns EXCEPT ![k].readyState = "open"]
    /\ ops' = <<>>
    /\ UNCHANGED storageVars
    /\ UNCHANGED <<mounted, sizerVars, appVars, eventSource, now, metricVars, renderVars,
                   panelVars, showChart>>

\* An error handler that drops the connection.
onerrorDisconnects(st, k) ==
    disconnectFromStream([st EXCEPT !.ops = Append(@, Call("onError", k))],
                         st.conns[k].client)

\* this.eventSource.onerror of both connect methods: log, then hand the
\* event to onError (CanvasViewport's callbacks log it).
onerror(st, k) == [st EXCEPT !.ops = Append(@, Call("onError", k))]

\* An error event: the transport either reconnects by itself (readyState
\* CONNECTING) or gives up (CLOSED), then the onerror handler runs.
EsError(k, fatal) ==
    /\ k \in 1..Len(conns)
    /\ conns[k].readyState \in {"connecting", "open"}
    /\ LET st == onerror([Store(baseUrlOk) EXCEPT !.conns[k].readyState =
                            IF fatal THEN "closed" ELSE "connecting"], k)
       IN  /\ eventSource' = st.es
           /\ conns' = st.conns
           /\ ops' = st.ops
    /\ UNCHANGED storageVars
    /\ UNCHANGED <<mounted, sizerVars, appVars, now, metricVars, renderVars, panelVars,
                   showChart>>

----------------------------------------------------------------------------
\* Direct calls of the APIClient's stream methods, by any caller.

ClientCall(st) ==
    /\ Len(st.conns) <= MaxConns
    /\ eventSource' = st.es
    /\ conns' = st.conns
    /\ ops' = st.ops
    /\ UNCHANGED storageVars
    /\ UNCHANGED <<mounted, sizerVars, appVars, now, metricVars, renderVars, panelVars,
                   showChart>>

CallConnectToStream(c) == ClientCall(connectToStream(Store(baseUrlOk), c))

CallConnectToDeviceStream(c, deviceId) ==
    ClientCall(connectToDeviceStream(Store(baseUrlOk), c, deviceId))

CallDisconnectFromStream(c) ==
    ClientCall(disconnectFromStream(Store(baseUrlOk), c))

\* updateBaseUrl(newBaseUrl): the new URL, and a disconnect when a stream is
\* held.
CallUpdateBaseUrl(c, urlOk) ==
    LET st == IF eventSource[c] # 0
              THEN disconnectFromStream(Store(baseUrlOk), c)
              ELSE Store(baseUrlOk)
    IN  /\ baseUrlOk' = [baseUrlOk EXCEPT ![c] = urlOk]
        /\ eventSource' = st.es
        /\ conns' = st.conns
        /\ ops' = st.ops
        /\ UNCHANGED storageVars
        /\ UNCHANGED <<mounted, sizerVars, isConnected, isPlaying, currentDevice,
                       apiClient, now, metricVars, renderVars, panelVars,
                       showChart>>

----------------------------------------------------------------------------
\* Stream messages.  A message is the text of one server-sent event:
\*   json             "invalid" (JSON.parse throws), "null" (parses to null)
\*                    or "object"
\*   type             its type field, "" when it has none
\*   dc               data_compressed: "absent", "null", "empty" (the empty
\*                    string) or "string" (a non-empty string, see payload)
\*   payload          what the non-empty string decodes to
\*   peakType, peak   typeof peak_frequency_hz, and its value in Hz
\*   sample_rate, peak_magnitude_db, data_size_bytes
\*                    sample_rate 0 stands for a record whose sample_rate is
\*                    0 or missing: either makes freqStep 0 or NaN
\* A payload is [base64, deflate, byteLength, floats]: whether atob accepts
\* the string, whether pako.inflate accepts the bytes, the number of bytes
\* inflated, and the 32-bit floats they hold (whole dB here).

Min(a, b) == IF a < b THEN a ELSE b

Max(a, b) == IF a > b THEN a ELSE b

\* JavaScript truthiness of data.data_compressed
Truthy(dc) == dc = "string"

\* A filter without the test of the type field.
StreamForwardsUntyped(m) ==
    m.json = "object" /\ Truthy(m.dc) /\ m.peakType = "number"

\* The onmessage handler of connectToStream: TRUE when it calls onData.
StreamForwards(m) ==
    /\ m.json = "object"
    /\ ~(m.type = "connected" \/ m.type = "heartbeat")
    /\ Truthy(m.dc) /\ m.peakType = "number"

\* A filter without the test of peak_frequency_hz.
DeviceStreamForwardsAnyPeak(m) ==
    /\ m.json = "object"
    /\ ~(m.type = "connected" \/ m.type = "heartbeat")
    /\ Truthy(m.dc)

\* The onmessage handler of connectToDeviceStream: TRUE when it calls onData.
DeviceStreamForwards(m) ==
    /\ m.json = "object"
    /\ ~(m.type = "connected" \/ m.type = "heartbeat")
    /\ Truthy(m.dc) /\ m.peakType = "number"

\* A decoder that keeps the whole floats of a truncated buffer.
decompressTruncating(p) ==
    IF p.base64 /\ p.deflate
    THEN [ok |-> TRUE, data |-> p.floats]
    ELSE [ok |-> FALSE, data |-> <<>>]

\* decompressFFTData(compressedData): the Float32Array, or null when atob,
\* pako.inflate or the Float32Array constructor (a byte length that is no
\* multiple of 4) throws.
decompressFFTData(p) ==
    IF p.base64 /\ p.deflate /\ p.byteLength % 4 = 0
    THEN [ok |-> TRUE, data |-> p.floats]
    ELSE [ok |-> FALSE, data |-> <<>>]

InitialSettings == [minFreqKHz |-> 0, maxFreqKHz |-> 200]

\* The settings the renderers read.  handleFFTData is memoised with an empty
\* dependency list, so the stream keeps calling the handler of the first
\* render, and with it the renderFrequencySpectrum and renderSpectrogram
\* closures of the first render: they read that render's frequencySettings
\* and spectrogramSettings, the initial state.
ClosureSettings(c) == InitialSettings

\* Math.floor((kHz * 1000) / freqStep) with freqStep = (sampleRate / 2) / n
FreqIndex(kHz, sampleRate, n) == (kHz * 1000 * 2 * n) \div sampleRate

minFreqIndex(range, sampleRate, n) ==
    Max(0, FreqIndex(range.minFreqKHz, sampleRate, n))

maxFreqIndex(range, sampleRate, n) ==
    Min(n, FreqIndex(range.maxFreqKHz, sampleRate, n))

\* A renderer that plots every bin.
SpectrumStepOne(minIdx, maxIdx) == 1

\* const step = Math.max(1, Math.floor((maxFreqIndex - minFreqIndex) / 800))
SpectrumStep(minIdx, maxIdx) == Max(1, (maxIdx - minIdx) \div 800)

\* dB clamped to [-100, 0], as normalizedDb does
ClampDb(db) == Max(-100, Min(0, db))

BlankCanvas ==
    [grid |-> FALSE, line |-> <<>>, marker |-> -1, peakX |-> -1,
     axis |-> <<>>]

\* const PADDING = 40
PADDING == 40

\* PADDING + ((kHz - MIN_FREQ_KHZ) / (MAX_FREQ_KHZ - MIN_FREQ_KHZ)) *
\* PLOT_WIDTH for a frequency given in Hz on a canvas width pixels wide, in
\* thousandths of a pixel.
PlotX(hz, range, width) ==
    PADDING * 1000
    + ((hz - range.minFreqKHz * 1000) * (width - 2 * PADDING))
        \div (range.maxFreqKHz - range.minFreqKHz)

\* renderFrequencySpectrum(canvas, frame): the canvas afterwards.  line is
\* the <<bin index, clamped dB>> points stroked, marker the peak frequency
\* (Hz) marked or -1, peakX the x of that mark or -1, axis the range the
\* labels span.
renderFrequencySpectrum(frame) ==
    LET fft    == decompressFFTData(frame.payload)
        n      == Len(fft.data)
        range  == ClosureSettings("frequency")
        minIdx == minFreqIndex(range, frame.sample_rate, n)
        maxIdx == maxFreqIndex(range, frame.sample_rate, n)
        step   == SpectrumStep(minIdx, maxIdx)
        count  == IF frame.sample_rate # 0 /\ maxIdx > minIdx
                  THEN ((maxIdx - minIdx - 1) \div step) + 1
                  ELSE 0
        peakIn == /\ frame.peak > 0
                  /\ frame.peak >= range.minFreqKHz * 1000
                  /\ frame.peak <= range.maxFreqKHz * 1000
    IN  IF fft.ok /\ n > 0
        THEN [grid   |-> TRUE,
              line   |-> [j \in 1..count |->
                            <<minIdx + (j - 1) * step,
                              ClampDb(fft.data[minIdx + (j - 1) * step + 1])>>],
              marker |-> IF peakIn THEN frame.peak ELSE -1,
              peakX  |-> IF peakIn
                         THEN PlotX(frame.peak, range, canvasSize.width)
                         ELSE -1,
              axis   |-> <<range.minFreqKHz, range.maxFreqKHz>>]
        ELSE [grid |-> TRUE, line |-> <<>>, marker |-> -1, peakX |-> -1,
              axis |-> <<>>]

\* fftData.slice(minFreqIndex, maxFreqIndex)
Slice(data, minIdx, maxIdx) ==
    [j \in 1..Max(0, maxIdx - minIdx) |-> data[minIdx + j]]

\* An allocation filled with 0 dB.
FloorRowsZero(freqBinCount) ==
    [i \in 1..waterfallHeight |-> [j \in 1..freqBinCount |-> 0]]

\* Array(waterfallHeight).fill(null).map(() => Array(freqBinCount).fill(-100))
FloorRows(freqBinCount) ==
    [i \in 1..waterfallHeight |-> [j \in 1..freqBinCount |-> -100]]

\* A push without the scroll.
ShiftInGrowing(data, row) == Append(data, row)

\* A scroll the other way: the new row at index 0.
ShiftInAtTop(data, row) ==
    [i \in 1..Len(data) |-> IF i = 1 THEN row ELSE data[i - 1]]

\* for (i = 1; i < waterfallHeight; i++) data[i - 1] = data[i];
\* data[waterfallHeight - 1] = row
ShiftIn(data, row) ==
    [i \in 1..Len(data) |-> IF i = waterfallHeight THEN row ELSE data[i + 1]]

\* The last waterfallHeight + 1 slices of the history.
Recent(h) == IF Len(h) > waterfallHeight + 1 THEN Tail(h) ELSE h

\* renderSpectrogram(canvas, frame): the buffer, its recorded width and the
\* history afterwards, and what the call did.  Without a usable sample rate
\* freqBinCount is NaN, which differs from every recorded width, and
\* Array(NaN) throws a RangeError before anything is assigned.
renderSpectrogram(frame, data, bins, hist) ==
    LET fft    == decompressFFTData(frame.payload)
        n      == Len(fft.data)
        range  == ClosureSettings("spectrogram")
        minIdx == minFreqIndex(range, frame.sample_rate, n)
        maxIdx == maxFreqIndex(range, frame.sample_rate, n)
        freqBinCount == maxIdx - minIdx
    IN  IF ~fft.ok \/ n = 0
        THEN [data |-> data, bins |-> bins, hist |-> hist, did |-> "dropped"]
        ELSE IF frame.sample_rate = 0
        THEN [data |-> data, bins |-> bins, hist |-> hist, did |-> "threw"]
        ELSE IF Len(data) = 0 \/ bins # freqBinCount
        THEN [data |-> FloorRows(freqBinCount), bins |-> freqBinCount,
              hist |-> <<>>, did |-> "allocated"]
        ELSE [data |-> ShiftIn(data, Slice(fft.data, minIdx, maxIdx)),
              bins |-> bins,
              hist |-> Recent(Append(hist, Slice(fft.data, minIdx, maxIdx))),
              did  |-> "written"]

\* The canvas of chart c is in the document.
HasCanvas(c) == mounted /\ showChart[c]

\* A window that closes only after more than a second.
WindowElapsedLate(t, last) == t - last > 1000

\* if (now - lastTime.current >= 1000)
WindowElapsed(t, last) == t - last >= 1000

\* JSON.parse(event.data) throws on text that is no JSON, and data.type
\* throws on the value null.
ParseThrows(m) == m.json \in {"invalid", "null"}

\* A handler whose catch clause hands the exception to the error callback.
onmessageCatchReports(threw) ==
    IF threw THEN <<Call("onError", 0)>> ELSE <<>>

\* The catch clause of the onmessage handlers: what an exception thrown in
\* the try block leads to.
onmessageCatch(threw) ==
    IF threw THEN <<Call("console.error", 0)>> ELSE <<>>

\* handleFFTData(frame), called from the try block of the onmessage handler
handleFFTData(frame) ==
    LET emit  == WindowElapsed(now, lastTime)
        fps   == frameCount + 1
        water == renderSpectrogram(frame, waterfallData, waterfallFreqBins,
                                   written)
    IN  /\ frameCount' = IF emit THEN 0 ELSE frameCount + 1
        /\ lastTime' = IF emit THEN now ELSE lastTime
        /\ statusData' = IF emit
                         THEN [fps |-> fps, peakFreq |-> frame.peak,
                               peakAmplitude |-> frame.peak_magnitude_db,
                               dataRate |-> frame.data_size_bytes]
                         ELSE statusData
        /\ spectrumCanvas' = IF HasCanvas("frequency")
                             THEN renderFrequencySpectrum(frame)
                             ELSE spectrumCanvas
        /\ waterfallData' = IF HasCanvas("spectrogram") THEN water.data
                            ELSE waterfallData
        /\ waterfallFreqBins' = IF HasCanvas("spectrogram") THEN water.bins
                                ELSE waterfallFreqBins
        /\ written' = IF HasCanvas("spectrogram") THEN water.hist ELSE written
        /\ ops' = <<Call("onmessage", 0), Call("onData", 0)>>
                  \o (IF emit THEN <<Call("status", fps)>> ELSE <<>>)
                  \o (IF HasCanvas("frequency")
                      THEN <<Call("renderFrequencySpectrum", 0)>> ELSE <<>>)
                  \o (IF HasCanvas("spectrogram")
                      THEN <<Call("renderSpectrogram", 0)>> ELSE <<>>)
                  \o onmessageCatch(HasCanvas("spectrogram")
                                    /\ water.did = "threw")

\* A message event on EventSource k: its onmessage handler runs.
EsMessage(k, m) ==
    /\ k \in 1..Len(conns)
    /\ conns[k].readyState = "open"
    /\ IF (IF conns[k].kind = "global" THEN StreamForwards(m)
           ELSE DeviceStreamForwards(m))
       THEN /\ frameCount < MaxFrameCount
            /\ handleFFTData(m)
       ELSE /\ ops' = <<Call("onmessage", 0)>> \o onmessageCatch(ParseThrows(m))
            /\ UNCHANGED <<metricVars, renderVars>>
    /\ UNCHANGED storageVars
    /\ UNCHANGED <<mounted, sizerVars, appVars, streamVars, now, panelVars, showChart>>

\* Time passes.
Tick ==
    /\ now < MaxTime
    /\ now' = now + 500
    /\ ops' = <<>>
    /\ UNCHANGED storageVars
    /\ UNCHANGED <<mounted, sizerVars, appVars, streamVars, metricVars, renderVars,
                   panelVars, showChart>>

----------------------------------------------------------------------------
\* FrequencySettingsPanel.  One instance per chart, rendered inside the
\* chart's container, so it is mounted while the chart is shown.  A panel
\* state ps is [temp, error, init, orig]: tempSettings, error,
\* initializedRef.current and originalSettingsRef.current.

MinError == "Minimum frequency must be less than maximum frequency"

MaxError == "Maximum frequency must be greater than minimum frequency"

\* parseFloat(inputValue) for the inputs of the model
ParseFloat(inputValue) ==
    CASE inputValue = "-10" -> [nan |-> FALSE, value |-> -10]
      [] inputValue = "0"   -> [nan |-> FALSE, value |-> 0]
      [] inputValue = "50"  -> [nan |-> FALSE, value |-> 50]
      [] inputValue = "100" -> [nan |-> FALSE, value |-> 100]
      [] inputValue = "200" -> [nan |-> FALSE, value |-> 200]
      [] inputValue = "250" -> [nan |-> FALSE, value |-> 250]
      [] OTHER              -> [nan |-> TRUE, value |-> 0]

\* A range check without the upper limit.
AcceptedUnlimited(parsed) == ~parsed.nan /\ parsed.value >= 0

\* !isNaN(value) && value >= 0 && value <= 200
Accepted(parsed) == ~parsed.nan /\ parsed.value >= 0 /\ parsed.value <= 200

PanelState(c) ==
    [temp |-> tempSettings[c], error |-> error[c], init |-> initialized[c],
     orig |-> originalSettings[c]]

\* Effects whose initialisation follows every change of the settings.
PanelEffectsFollowing(ps, isOpen, openChanged, current, settingsChanged) ==
    IF (openChanged \/ settingsChanged) /\ isOpen
    THEN [ps EXCEPT !.temp = current, !.error = "", !.init = TRUE,
                    !.orig = current]
    ELSE IF openChanged /\ ~isOpen THEN [ps EXCEPT !.init = FALSE] ELSE ps

\* The panel's effects after a render, in their order in the source:
\*   [isOpen, title]     initialise the staged values when the panel opens
\*   [isOpen]            reset the flag when the panel is closed
\*   [isOpen, settings]  capture the original settings
PanelEffects(ps, isOpen, openChanged, current, settingsChanged) ==
    LET e1 == IF openChanged /\ isOpen /\ ~ps.init
              THEN [ps EXCEPT !.temp = current, !.error = "", !.init = TRUE]
              ELSE ps
        e2 == IF openChanged /\ ~isOpen THEN [e1 EXCEPT !.init = FALSE] ELSE e1
        e3 == IF (openChanged \/ settingsChanged) /\ isOpen /\ ~e2.init
              THEN [e2 EXCEPT !.orig = current]
              ELSE e2
    IN  e3

\* The first render of a panel and its effects.
PanelMount(isOpen, current) ==
    PanelEffects([temp |-> current, error |-> "", init |-> FALSE,
                  orig |-> current],
                 isOpen, TRUE, current, TRUE)

SetPanel(c, ps) ==
    /\ tempSettings' = [tempSettings EXCEPT ![c] = ps.temp]
    /\ error' = [error EXCEPT ![c] = ps.error]
    /\ initialized' = [initialized EXCEPT ![c] = ps.init]
    /\ originalSettings' = [originalSettings EXCEPT ![c] = ps.orig]

PanelShown(c) == mounted /\ showChart[c] /\ showSettings[c]

\* handleMinFreqChange(e)
handleMinFreqChange(ps, inputValue) ==
    LET parsed == ParseFloat(inputValue)
    IN  IF inputValue = ""
        THEN [ps EXCEPT !.temp.minFreqKHz = 0]
        ELSE IF Accepted(parsed)
        THEN [ps EXCEPT !.temp.minFreqKHz = parsed.value,
                        !.error = IF parsed.value >= ps.temp.maxFreqKHz
                                  THEN MinError ELSE ""]
        ELSE ps

\* A maximum handler that stores the value without validating it against
\* the minimum.
handleMaxFreqChangeSilent(ps, inputValue) ==
    LET parsed == ParseFloat(inputValue)
    IN  IF inputValue = ""
        THEN [ps EXCEPT !.temp.maxFreqKHz = 200]
        ELSE IF Accepted(parsed)
        THEN [ps EXCEPT !.temp.maxFreqKHz = parsed.value, !.error = ""]
        ELSE ps

\* handleMaxFreqChange(e)
handleMaxFreqChange(ps, inputValue) ==
    LET parsed == ParseFloat(inputValue)
    IN  IF inputValue = ""
        THEN [ps EXCEPT !.temp.maxFreqKHz = 200]
        ELSE IF Accepted(parsed)
        THEN [ps EXCEPT !.temp.maxFreqKHz = parsed.value,
                        !.error = IF parsed.value <= ps.temp.minFreqKHz
                                  THEN MaxError ELSE ""]
        ELSE ps

\* The user types into the minimum field of panel c.
TypeMin(c, inputValue) ==
    /\ PanelShown(c)
    /\ SetPanel(c, handleMinFreqChange(PanelState(c), inputValue))
    /\ ops' = <<>>
    /\ UNCHANGED storageVars
    /\ UNCHANGED <<mounted, sizerVars, appVars, streamVars, now, metricVars, renderVars,
                   showChart, settings, showSettings>>

\* The user types into the maximum field of panel c.
TypeMax(c, inputValue) ==
    /\ PanelShown(c)
    /\ SetPanel(c, handleMaxFreqChange(PanelState(c), inputValue))
    /\ ops' = <<>>
    /\ UNCHANGED storageVars
    /\ UNCHANGED <<mounted, sizerVars, appVars, streamVars, now, metricVars, renderVars,
                   showChart, settings, showSettings>>

\* disabled={!!error || tempSettings.minFreqKHz >= tempSettings.maxFreqKHz}
ApplyDisabled(ps) ==
    ps.error # "" \/ ps.temp.minFreqKHz >= ps.temp.maxFreqKHz

\* A test that lets an empty range through.
ApplyAcceptsEqual(temp) == temp.minFreqKHz <= temp.maxFreqKHz

\* if (tempSettings.minFreqKHz < tempSettings.maxFreqKHz)
ApplyAccepts(temp) == temp.minFreqKHz < temp.maxFreqKHz

\* handleApply() of panel c: the committed settings and the open state it
\* leaves (onSettingsChange(tempSettings) and onClose(), or nothing).
handleApply(c) ==
    IF ApplyAccepts(tempSettings[c])
    THEN [settings |-> tempSettings[c], isOpen |-> FALSE]
    ELSE [settings |-> settings[c], isOpen |-> showSettings[c]]

\* A panel wired to the spectrum's setter whichever chart it belongs to.
onSettingsChangeMiswired(c) == "frequency"

\* The chart whose committed settings the onSettingsChange of panel c sets:
\* onSettingsChange={setFrequencySettings} on the spectrum's panel,
\* onSettingsChange={setSpectrogramSettings} on the waterfall's.
onSettingsChange(c) == c

\* A click on the Apply button, which a disabled button does not take.
Apply(c) ==
    /\ PanelShown(c)
    /\ ~ApplyDisabled(PanelState(c))
    /\ settings' = [settings EXCEPT
                      ![onSettingsChange(c)] = handleApply(c).settings]
    /\ showSettings' = [showSettings EXCEPT ![c] = handleApply(c).isOpen]
    /\ IF ~handleApply(c).isOpen
       THEN SetPanel(c, PanelEffects([PanelState(c) EXCEPT !.init = FALSE],
                                     FALSE, TRUE, tempSettings[c], TRUE))
       ELSE UNCHANGED <<tempSettings, error, initialized, originalSettings>>
    /\ ops' = <<>>
    /\ UNCHANGED storageVars
    /\ UNCHANGED <<mounted, sizerVars, appVars, streamVars, now, metricVars, renderVars,
                   showChart>>

\* handleCancel()
Cancel(c) ==
    /\ PanelShown(c)
    /\ showSettings' = [showSettings EXCEPT ![c] = FALSE]
    /\ SetPanel(c, PanelEffects([PanelState(c) EXCEPT
                                    !.temp = originalSettings[c],
                                    !.error = "", !.init = FALSE],
                                FALSE, TRUE, settings[c], FALSE))
    /\ ops' = <<>>
    /\ UNCHANGED storageVars
    /\ UNCHANGED <<mounted, sizerVars, appVars, streamVars, now, metricVars, renderVars,
                   showChart, settings>>

\* The parent renders panel c with other settings: the settings prop changes
\* while isOpen stays, and the effects that depend on settings run.
SetSettings(c, new) ==
    /\ mounted /\ showChart[c]
    /\ new # settings[c]
    /\ settings' = [settings EXCEPT ![c] = new]
    /\ SetPanel(c, PanelEffects(PanelState(c), showSettings[c], FALSE, new,
                                TRUE))
    /\ ops' = <<Call("settings", 0)>>
    /\ UNCHANGED storageVars
    /\ UNCHANGED <<mounted, sizerVars, appVars, streamVars, now, metricVars,
                   renderVars, showChart, showSettings>>

\* The settings icon button: setShowFrequencySettings(!showFrequencySettings)
ToggleSettings(c) ==
    /\ mounted /\ showChart[c]
    /\ showSettings' = [showSettings EXCEPT ![c] = ~showSettings[c]]
    /\ SetPanel(c, PanelEffects(PanelState(c), ~showSettings[c], TRUE,
                                settings[c], FALSE))
    /\ ops' = <<>>
    /\ UNCHANGED storageVars
    /\ UNCHANGED <<mounted, sizerVars, appVars, streamVars, now, metricVars, renderVars,
                   showChart, settings>>

\* onFrequencyToggle / onSpectrogramToggle: the chart, its canvas and its
\* panel are mounted or unmounted.  The ResizeObserver watches the element
\* that was the canvas container at mount, the frequency chart's; when that
\* element leaves the document the observer reports its box once more (now
\* empty), and a frequency chart shown again is a new element, which nothing
\* observes.
ToggleChart(c) ==
    /\ mounted
    /\ showChart' = [showChart EXCEPT ![c] = ~showChart[c]]
    /\ IF ~showChart[c]
       THEN SetPanel(c, PanelMount(showSettings[c], settings[c]))
       ELSE UNCHANGED <<tempSettings, error, initialized, originalSettings>>
    /\ IF c = "frequency" /\ showChart[c] /\ observed
       THEN observed' = FALSE /\ resizeTimeout' = TRUE
       ELSE UNCHANGED <<observed, resizeTimeout>>
    /\ ops' = <<>>
    /\ UNCHANGED storageVars
    /\ UNCHANGED <<mounted, canvasSize, containerRect, timer, appVars,
                   streamVars, now, metricVars, renderVars, settings,
                   showSettings>>

----------------------------------------------------------------------------
\* The canvas sizer.  Boxes are [width, height, border] in half pixels (a
\* layout box can end between two pixels), the border being the width of
\* each of the container's four borders; canvasSize is in whole pixels.

\* canvasContainerRef.current is an element: the frequency chart's container
\* or, without that chart, the spectrogram's.
HasContainer == mounted /\ (showChart["frequency"] \/ showChart["spectrogram"])

\* Math.floor of a length in half pixels, in pixels
MathFloor(x) == x \div 2

\* A size computation without the floor of 200 x 150.
updateCanvasSizeUnclamped(rect) ==
    [width  |-> MathFloor(rect.width - rect.border - rect.border),
     height |-> MathFloor(rect.height - rect.border - rect.border)]

\* updateCanvasSize(): the size handed to setCanvasSize for a container rect
updateCanvasSize(rect) ==
    [width  |-> Max(200, MathFloor(rect.width - rect.border - rect.border)),
     height |-> Max(150, MathFloor(rect.height - rect.border - rect.border))]

\* A call of updateCanvasSize: nothing without a container; a canvas whose
\* width or height attribute changes is cleared by the browser.
SetCanvasSize ==
    /\ canvasSize' = IF HasContainer THEN updateCanvasSize(containerRect)
                     ELSE canvasSize
    /\ spectrumCanvas' = IF canvasSize' # canvasSize THEN BlankCanvas
                         ELSE spectrumCanvas
    /\ ops' = IF HasContainer THEN <<Call("setCanvasSize", 0)>> ELSE <<>>
    /\ UNCHANGED <<waterfallData, waterfallFreqBins, written>>

\* A mount timeout that measures nothing.
TimerFiresIdle ==
    /\ timer
    /\ timer' = FALSE
    /\ ops' = <<>>
    /\ UNCHANGED storageVars
    /\ UNCHANGED <<mounted, appVars, streamVars, now, metricVars, renderVars,
                   panelVars, showChart, canvasSize, containerRect,
                   resizeTimeout, observed>>

\* setTimeout(updateCanvasSize, 100) of the sizing effect fires.
TimerFires ==
    /\ timer
    /\ timer' = FALSE
    /\ SetCanvasSize
    /\ UNCHANGED storageVars
    /\ UNCHANGED <<mounted, appVars, streamVars, now, metricVars, panelVars,
                   showChart, containerRect, resizeTimeout, observed>>

\* The layout gives the canvas container the box rect; the ResizeObserver,
\* if it watches that element, notifies, and its callback restarts the
\* debounce timeout: clearTimeout(resizeTimeout), setTimeout(..., 16).
ContainerResize(rect) ==
    /\ HasContainer
    /\ containerRect' = rect
    /\ resizeTimeout' = (resizeTimeout \/ observed)
    /\ ops' = <<>>
    /\ UNCHANGED storageVars
    /\ UNCHANGED <<mounted, appVars, streamVars, now, metricVars, renderVars,
                   panelVars, showChart, canvasSize, timer, observed>>

\* The debounce timeout fires.
ResizeTimeoutFires ==
    /\ resizeTimeout
    /\ resizeTimeout' = FALSE
    /\ SetCanvasSize
    /\ UNCHANGED storageVars
    /\ UNCHANGED <<mounted, appVars, streamVars, now, metricVars, panelVars,
                   showChart, containerRect, timer, observed>>

\* A resize event of the window: the listener is updateCanvasSize itself.
WindowResize ==
    /\ mounted
    /\ SetCanvasSize
    /\ UNCHANGED storageVars
    /\ UNCHANGED <<mounted, appVars, streamVars, now, metricVars, panelVars,
                   showChart, containerRect, timer, resizeTimeout, observed>>

----------------------------------------------------------------------------
\* ServerStorageService (serverStorage).  The stored item is
\* [present, servers, currentServerId]: present is FALSE while localStorage
\* has no item under the key, currentServerId "" is null, and a server is
\* [id, name, url, isDefault] (isDefault FALSE where the record has none).
\* Without a stored item the service works on a shallow copy of
\* DEFAULT_SERVERS: the array is new, the server objects are the module's own.

DEFAULT_SERVERS ==
    <<[id |-> "localhost-8380", name |-> "Local Server",
       url |-> "http://localhost:8380", isDefault |-> TRUE],
      [id |-> "local-ip-8380", name |-> "Local IP",
       url |-> "http://127.0.0.1:8380", isDefault |-> FALSE]>>

NoItem == [present |-> FALSE, servers |-> <<>>, currentServerId |-> ""]

\* servers.findIndex(s => s.id === id), counted from 1; 0 is not found
FindIndex(servers, id) ==
    IF \E i \in 1..Len(servers) : servers[i].id = id
    THEN CHOOSE i \in 1..Len(servers) :
            /\ servers[i].id = id
            /\ \A j \in 1..(i - 1) : servers[j].id # id
    ELSE 0

\* servers.find(s => s.isDefault)?.id || servers[0]?.id || null
DefaultOrFirstId(servers) ==
    IF \E i \in 1..Len(servers) : servers[i].isDefault
    THEN servers[CHOOSE i \in 1..Len(servers) :
                    /\ servers[i].isDefault
                    /\ \A j \in 1..(i - 1) : ~servers[j].isDefault].id
    ELSE IF Len(servers) > 0 THEN servers[1].id ELSE ""

\* getStorageData(): the stored configuration with the default server put
\* first if none is marked default, or the default configuration without a
\* stored item
getStorageData(item, defaults) ==
    IF item.present
    THEN IF \E i \in 1..Len(item.servers) : item.servers[i].isDefault
         THEN item
         ELSE [item EXCEPT !.servers = <<defaults[1]>> \o @]
    ELSE [present |-> TRUE, servers |-> defaults,
          currentServerId |-> defaults[1].id]

\* saveStorageData(data): setItem stores the configuration, or throws (the
\* quota is used up) and the exception is logged
saveStorageData(item, data, stored) == IF stored THEN data ELSE item

\* setCurrentServer(serverId): the configuration to save, or none
setCurrentServer(data, serverId) ==
    IF FindIndex(data.servers, serverId) # 0
    THEN [save |-> TRUE, data |-> [data EXCEPT !.currentServerId = serverId]]
    ELSE [save |-> FALSE, data |-> data]

\* `server-${Date.now()}`
NewServerId(t) == "server-" \o ToString(t)

\* addServer(name, url) at time t
addServer(data, name, url, t) ==
    [data EXCEPT !.servers =
        Append(@, [id |-> NewServerId(t), name |-> name, url |-> url,
                   isDefault |-> FALSE])]

\* updateServer(id, name, url): the configuration to save, or none
updateServer(data, id, name, url) ==
    LET i == FindIndex(data.servers, id)
    IN  IF i = 0 THEN [save |-> FALSE, data |-> data]
        ELSE IF data.servers[i].isDefault
        THEN [save |-> TRUE,
              data |-> [data EXCEPT !.servers[i].name = name]]
        ELSE [save |-> TRUE,
              data |-> [data EXCEPT !.servers[i].name = name,
                                    !.servers[i].url = url]]

\* servers.splice(i, 1)
Splice(servers, i) ==
    [j \in 1..(Len(servers) - 1) |->
        IF j < i THEN servers[j] ELSE servers[j + 1]]

\* A deletion that leaves currentServerId alone.
deleteServerKeepsCurrent(data, id) ==
    LET i == FindIndex(data.servers, id)
    IN  IF i = 0 \/ data.servers[i].isDefault
        THEN [save |-> FALSE, data |-> data, result |-> FALSE]
        ELSE [save |-> TRUE,
              data |-> [data EXCEPT !.servers = Splice(@, i)],
              result |-> TRUE]

\* deleteServer(id): the configuration to save, or none, and the result
deleteServer(data, id) ==
    LET i == FindIndex(data.servers, id)
        rest == Splice(data.servers, i)
    IN  IF i = 0 \/ data.servers[i].isDefault
        THEN [save |-> FALSE, data |-> data, result |-> FALSE]
        ELSE [save |-> TRUE,
              data |-> [data EXCEPT
                          !.servers = rest,
                          !.currentServerId =
                              IF @ = id THEN DefaultOrFirstId(rest) ELSE @],
              result |-> TRUE]

\* A call of a method of serverStorageService that writes: the item
\* afterwards and the calls it made.
StorageCall(name, r, stored) ==
    /\ localStorage' = IF r.save
                       THEN saveStorageData(localStorage, r.data, stored)
                       ELSE localStorage
    /\ ops' = <<Call(name, 0)>>
               \o (IF r.save THEN <<Call("setItem", IF stored THEN 1 ELSE 0)>>
                   ELSE <<>>)
    /\ UNCHANGED <<defaultServers, mounted, sizerVars, appVars, streamVars, now, metricVars,
                   renderVars, panelVars, showChart>>

SetCurrentServer(serverId, stored) ==
    StorageCall("setCurrentServer",
                setCurrentServer(getStorageData(localStorage, defaultServers),
                                 serverId),
                stored)

AddServer(name, url, stored) ==
    /\ Len(getStorageData(localStorage, defaultServers).servers)
         < MaxServers
    /\ StorageCall("addServer",
                   [save |-> TRUE,
                    data |-> addServer(getStorageData(localStorage,
                                                      defaultServers),
                                       name, url, now)],
                   stored)

\* updateServer(id, name, url); without a stored item the server it
\* assigns to is an object of DEFAULT_SERVERS
UpdateServer(id, name, url, stored) ==
    LET r == updateServer(getStorageData(localStorage, defaultServers), id,
                          name, url)
    IN  /\ localStorage' = IF r.save
                           THEN saveStorageData(localStorage, r.data, stored)
                           ELSE localStorage
        /\ defaultServers' = IF r.save /\ ~localStorage.present
                             THEN r.data.servers ELSE defaultServers
        /\ ops' = <<Call("updateServer", 0)>>
                   \o (IF r.save
                       THEN <<Call("setItem", IF stored THEN 1 ELSE 0)>>
                       ELSE <<>>)
        /\ UNCHANGED <<mounted, sizerVars, appVars, streamVars, now,
                       metricVars, renderVars, panelVars, showChart>>

\* deleteServer(id); the call recorded carries the result, 1 for true
DeleteServer(id, stored) ==
    LET r == deleteServer(getStorageData(localStorage, defaultServers),
                          id)
    IN  /\ localStorage' = IF r.save
                           THEN saveStorageData(localStorage, r.data, stored)
                           ELSE localStorage
        /\ ops' = <<Call("deleteServer", IF r.result THEN 1 ELSE 0)>>
        /\ UNCHANGED <<defaultServers, mounted, sizerVars, appVars, streamVars, now,
                       metricVars, renderVars, panelVars, showChart>>

----------------------------------------------------------------------------
\* Inputs.

PayloadA    == [base64 |-> TRUE, deflate |-> TRUE, byteLength |-> 8,
                floats |-> <<-20, -60>>]

PayloadB    == [base64 |-> TRUE, deflate |-> TRUE, byteLength |-> 8,
                floats |-> <<-120, 5>>]

BadBase64   == [base64 |-> FALSE, deflate |-> FALSE, byteLength |-> 0,
                floats |-> <<>>]

BadDeflate  == [base64 |-> TRUE, deflate |-> FALSE, byteLength |-> 0,
                floats |-> <<>>]

\* Six bytes: one float and a half.
OddLength   == [base64 |-> TRUE, deflate |-> TRUE, byteLength |-> 6,
                floats |-> <<-33>>]

EmptyResult == [base64 |-> TRUE, deflate |-> TRUE, byteLength |-> 0,
                floats |-> <<>>]

GoodPayloads == {PayloadA, PayloadB}

\* A spectrum of n bins, all at -50 dB.
FlatPayload(n) ==
    [base64 |-> TRUE, deflate |-> TRUE, byteLength |-> 4 * n,
     floats |-> [i \in 1..n |-> -50]]

\* Spectrum lengths around the multiples of 800.
FftSizes == {1, 801, 1599, 1600}

BadPayloads == {BadBase64, BadDeflate, OddLength, EmptyResult}

Message(json, type, dc, payload, peakType, peak, sampleRate) ==
    [json |-> json, type |-> type, dc |-> dc, payload |-> payload,
     peakType |-> peakType, peak |-> peak, sample_rate |-> sampleRate,
     peak_magnitude_db |-> -30, data_size_bytes |-> 64]

\* Messages of every shape the filter tells apart.
FilterMessages ==
    {Message(j, "", "absent", EmptyResult, "absent", 0, 384000) :
        j \in {"invalid", "null"}}
    \cup {Message("object", t, dc, PayloadA, pt, 45000, 384000) :
            t \in {"", "connected", "heartbeat", "status"},
            dc \in {"absent", "null", "empty", "string"},
            pt \in {"absent", "null", "string", "number"}}

\* Well-formed frame records, with payloads that decode and payloads that do
\* not, at two sample rates (Nyquist below and above 200 kHz).
FrameMessages ==
    {Message("object", "", "string", p, "number", 45000, sr) :
        p \in GoodPayloads, sr \in {384000, 800000}}
    \cup {Message("object", "", "string", p, "number", 45000, 384000) :
            p \in BadPayloads}
    \cup {Message("object", "heartbeat", "absent", EmptyResult, "absent", 0,
                  384000)}

Inputs == {"", "abc", "-10", "0", "100", "200", "250"}

\* A frame: a message both filters forward.
IsFrame(m) ==
    /\ m.json = "object"
    /\ ~(m.type = "connected" \/ m.type = "heartbeat")
    /\ m.dc = "string" /\ m.peakType = "number"

\* Container boxes: empty, just below the floor of the canvas size, and
\* larger, ending on and between pixels, with and without a border.
Rects ==
    {[width |-> w, height |-> h, border |-> b] :
        w \in {0, 399, 1281}, h \in {0, 299, 960}, b \in {0, 2}}

----------------------------------------------------------------------------
Init ==
    /\ mounted = TRUE
    /\ isConnected = FALSE
    /\ isPlaying = FALSE
    /\ currentDevice = ""
    /\ apiClient = 1
    /\ baseUrlOk = [c \in Clients |-> TRUE]
    /\ eventSource = [c \in Clients |-> 0]
    /\ conns = <<>>
    /\ ops = <<>>
    /\ now = 0
    /\ frameCount = 0
    /\ lastTime = 0
    /\ statusData = [fps |-> 0, peakFreq |-> 0, peakAmplitude |-> 0,
                     dataRate |-> 0]
    /\ showChart = [c \in Charts |-> TRUE]
    /\ spectrumCanvas = BlankCanvas
    /\ waterfallData = <<>>
    /\ waterfallFreqBins = 0
    /\ written = <<>>
    /\ settings = [c \in Charts |-> InitialSettings]
    /\ showSettings = [c \in Charts |-> FALSE]
    /\ tempSettings = [c \in Charts |-> InitialSettings]
    /\ error = [c \in Charts |-> ""]
    /\ initialized = [c \in Charts |-> FALSE]
    /\ originalSettings = [c \in Charts |-> InitialSettings]
    /\ canvasSize = [width |-> 800, height |-> 400]
    /\ containerRect = [width |-> 1281, height |-> 960, border |-> 2]
    /\ timer = TRUE
    /\ resizeTimeout = FALSE
    /\ observed = TRUE
    /\ localStorage = NoItem
    /\ defaultServers = DEFAULT_SERVERS

\* The stream's life cycle and its message filter.
NextStream ==
    \/ \E healthy \in BOOLEAN : TestConnection(healthy)
    \/ HandlePlay
    \/ \E d \in Devices : HandleDeviceChange(d)
    \/ \E urlOk \in BOOLEAN : HandleBaseUrlChange(urlOk)
    \/ Unmount
    \/ \E k \in 1..MaxConns : EsOpen(k)
    \/ \E k \in 1..MaxConns, fatal \in BOOLEAN : EsError(k, fatal)
    \/ \E k \in 1..MaxConns, m \in FilterMessages : EsMessage(k, m)

SpecStream == Init /\ [][NextStream]_vars

\* Frames through the decoder and the two renderers.
NextFrames ==
    \/ \E healthy \in BOOLEAN : TestConnection(healthy)
    \/ HandlePlay
    \/ \E k \in 1..MaxConns : EsOpen(k)
    \/ \E k \in 1..MaxConns, m \in FrameMessages : EsMessage(k, m)
    \/ \E c \in Charts : ToggleChart(c)

SpecFrames == Init /\ [][NextFrames]_vars

\* The APIClient's stream methods called in any order.
NextClient ==
    \/ \E c \in Clients : CallConnectToStream(c)
    \/ \E c \in Clients, d \in Devices \ {""} : CallConnectToDeviceStream(c, d)
    \/ \E c \in Clients : CallDisconnectFromStream(c)
    \/ \E c \in Clients, urlOk \in BOOLEAN : CallUpdateBaseUrl(c, urlOk)
    \/ \E k \in 1..MaxConns : EsOpen(k)
    \/ \E k \in 1..MaxConns, fatal \in BOOLEAN : EsError(k, fatal)

SpecClient == Init /\ [][NextClient]_vars

\* Messages that count as frames and messages that do not, while time passes.
MetricMessages ==
    {Message("object", t, "string", PayloadA, "number", 45000, 384000) :
        t \in {"", "connected", "heartbeat"}}

\* The metrics window of one stream.
NextMetrics ==
    \/ TestConnection(TRUE)
    \/ HandlePlay
    \/ \E d \in {"", "mic1"} : HandleDeviceChange(d)
    \/ \E k \in 1..MaxConns : EsOpen(k)
    \/ \E k \in 1..MaxConns, m \in MetricMessages : EsMessage(k, m)
    \/ Tick

SpecMetrics == Init /\ [][NextMetrics]_vars

\* A frame that decodes and a frame that does not, with different peaks.
WindowMessages ==
    {Message("object", "", "string", PayloadA, "number", 45000, 384000),
     Message("object", "", "string", BadDeflate, "number", 90000, 384000)}

\* The metrics window while charts are shown and hidden.
NextWindow ==
    \/ TestConnection(TRUE)
    \/ HandlePlay
    \/ \E k \in 1..MaxConns : EsOpen(k)
    \/ \E k \in 1..MaxConns, m \in WindowMessages : EsMessage(k, m)
    \/ \E c \in Charts : ToggleChart(c)
    \/ Tick

SpecWindow == Init /\ [][NextWindow]_vars

\* The two settings panels.
NextPanel ==
    \/ \E c \in Charts : ToggleSettings(c)
    \/ \E c \in Charts, v \in Inputs : TypeMin(c, v)
    \/ \E c \in Charts, v \in Inputs : TypeMax(c, v)
    \/ \E c \in Charts : Apply(c)
    \/ \E c \in Charts : Cancel(c)
    \/ \E c \in Charts : ToggleChart(c)

SpecPanel == Init /\ [][NextPanel]_vars

\* Ranges a parent can pass to a panel.
Ranges ==
    {[minFreqKHz |-> 0, maxFreqKHz |-> 200],
     [minFreqKHz |-> 0, maxFreqKHz |-> 100],
     [minFreqKHz |-> 100, maxFreqKHz |-> 200]}

\* A settings panel as a component: its own handlers, and a parent that
\* opens and closes it and changes the settings it passes.
NextProps ==
    \/ \E c \in Charts : ToggleSettings(c)
    \/ \E c \in Charts, v \in Inputs : TypeMin(c, v)
    \/ \E c \in Charts, v \in Inputs : TypeMax(c, v)
    \/ \E c \in Charts : Apply(c)
    \/ \E c \in Charts : Cancel(c)
    \/ \E c \in Charts, new \in Ranges : SetSettings(c, new)

SpecProps == Init /\ [][NextProps]_vars

\* The canvas sizer while charts are shown and hidden.
NextSizer ==
    \/ TimerFires
    \/ \E rect \in Rects : ContainerResize(rect)
    \/ ResizeTimeoutFires
    \/ WindowResize
    \/ \E c \in Charts : ToggleChart(c)
    \/ Unmount

SpecSizer == Init /\ [][NextSizer]_vars

\* The same, with the timeout of the mount: a timeout that was set and not
\* cleared fires.
SpecSizerFair == SpecSizer /\ WF_vars(TimerFires)

\* Frames with a peak at 0 Hz, at 45 kHz and at 150 kHz.
RangeMessages ==
    {Message("object", "", "string", PayloadA, "number", peak, 384000) :
        peak \in {0, 45000, 150000}}

\* Frames rendered while the ranges of the two charts are edited.
NextRange ==
    \/ TestConnection(TRUE)
    \/ HandlePlay
    \/ \E k \in 1..MaxConns : EsOpen(k)
    \/ \E k \in 1..MaxConns, m \in RangeMessages : EsMessage(k, m)
    \/ \E c \in Charts : ToggleSettings(c)
    \/ \E c \in Charts : TypeMin(c, "50")
    \/ \E c \in Charts : TypeMax(c, "100")
    \/ \E c \in Charts : Apply(c)
    \/ \E c \in Charts : Cancel(c)

SpecRange == Init /\ [][NextRange]_vars

\* Text that is no JSON, the JSON value null, a frame without a usable sample
\* rate, frames that decode (sampled at 384 kHz and at 44.1 kHz) and a frame
\* that does not.
FaultMessages ==
    {Message(j, "", "absent", EmptyResult, "absent", 0, 384000) :
        j \in {"invalid", "null"}}
    \cup {Message("object", "", "string", PayloadA, "number", 45000, sr) :
            sr \in {0, 44100, 384000}}
    \cup {Message("object", "", "string", BadDeflate, "number", 45000, 0)}

\* Messages whose handling throws, on both kinds of stream, while the
\* waterfall is shown and hidden.
NextFaults ==
    \/ TestConnection(TRUE)
    \/ HandlePlay
    \/ \E d \in {"", "mic1"} : HandleDeviceChange(d)
    \/ \E k \in 1..MaxConns : EsOpen(k)
    \/ \E k \in 1..MaxConns, fatal \in BOOLEAN : EsError(k, fatal)
    \/ \E k \in 1..MaxConns, m \in FaultMessages : EsMessage(k, m)
    \/ ToggleChart("spectrogram")

SpecFaults == Init /\ [][NextFaults]_vars

\* Long spectra at two sample rates: the 200 kHz of the range lie beyond the
\* last bin, or in the middle of the spectrum.
DecimateMessages ==
    {Message("object", "", "string", FlatPayload(n), "number", 45000, sr) :
        n \in FftSizes, sr \in {384000, 800000}}

\* Long spectra through the renderers.
NextDecimate ==
    \/ TestConnection(TRUE)
    \/ HandlePlay
    \/ \E k \in 1..MaxConns : EsOpen(k)
    \/ \E k \in 1..MaxConns, m \in DecimateMessages : EsMessage(k, m)

SpecDecimate == Init /\ [][NextDecimate]_vars

\* Ids a caller can name: the two default servers, servers added at the
\* times the clock shows, and an id no server has.
ServerIds ==
    {DEFAULT_SERVERS[1].id, DEFAULT_SERVERS[2].id, "unknown"}
    \cup {NewServerId(t) : t \in {0, 500}}

ServerNames == {"Lab"}

ServerUrls == {"http://10.0.0.2:8380"}

\* The server list edited in any order, while time passes.
NextStorage ==
    \/ \E n \in ServerNames, u \in ServerUrls, stored \in BOOLEAN :
          AddServer(n, u, stored)
    \/ \E id \in ServerIds, n \in ServerNames, u \in ServerUrls,
          stored \in BOOLEAN : UpdateServer(id, n, u, stored)
    \/ \E id \in ServerIds, stored \in BOOLEAN : DeleteServer(id, stored)
    \/ \E id \in ServerIds, stored \in BOOLEAN : SetCurrentServer(id, stored)
    \/ Tick

SpecStorage == Init /\ [][NextStorage]_vars

----------------------------------------------------------------------------
\* Properties.

\* C1: of the EventSources a client has created, only the one it holds is
\* not closed, so at most one is open at any time; and within one handler
\* every close of a client's connection comes before the open of its new
\* one.
C1_SingleFlight ==
    /\ \A k \in 1..Len(conns) :
          conns[k].readyState # "closed" => eventSource[conns[k].client] = k
    /\ \A i, j \in 1..Len(ops) :
          (/\ ops[i].op = "open" /\ ops[j].op = "close"
           /\ conns[ops[i].arg].client = conns[ops[j].arg].client) => j < i

\* A connect has replaced a connection that was still held: the old one is
\* closed, the new one is held.
C1_Witness ==
    /\ Len(ops) = 2 /\ ops[1].op = "close" /\ ops[2].op = "open"
    /\ conns[ops[1].arg].readyState = "closed"
    /\ conns[ops[1].arg].client = conns[ops[2].arg].client
    /\ eventSource[conns[ops[2].arg].client] = ops[2].arg

\* C2: a change of the current device while the view streams (isConnected,
\* isPlaying, a connection held) closes the held connection exactly once and
\* then opens the new one: the calls are the close followed by the open, so
\* no intermediate state has two connections open.
C2_DeviceSwitch ==
    [][(/\ mounted /\ isConnected /\ isPlaying
        /\ eventSource[apiClient] # 0
        /\ currentDevice' # currentDevice)
       => (/\ ops' = <<Call("close", eventSource[apiClient]),
                       Call("open", Len(conns) + 1)>>
           /\ conns'[eventSource[apiClient]].closeCalls = 1
           /\ conns'[eventSource[apiClient]].readyState = "closed"
           /\ eventSource'[apiClient] = Len(conns) + 1
           /\ conns'[Len(conns) + 1].device = currentDevice'
           /\ \A k \in 1..Len(conns) : conns'[k].readyState = "closed")]_vars

\* The view has switched from one device's open stream to another device's.
C2_Witness ==
    /\ mounted /\ isConnected /\ isPlaying
    /\ Len(conns) >= 2
    /\ Len(ops) = 2 /\ ops[1] = Call("close", Len(conns) - 1)
    /\ ops[2] = Call("open", Len(conns))
    /\ conns[Len(conns) - 1].kind = "device"
    /\ conns[Len(conns)].kind = "device"
    /\ conns[Len(conns)].device # conns[Len(conns) - 1].device
    /\ conns[Len(conns) - 1].closeCalls = 1

\* C3: disconnectFromStream is idempotent: with no stream held it changes
\* nothing, and a second call changes nothing after the first, which left no
\* connection held and issued one close on the connection that was held.
C3_DisconnectIdempotent ==
    \A c \in Clients :
        LET st0 == Store(baseUrlOk)
            st1 == disconnectFromStream(st0, c)
            st2 == disconnectFromStream(st1, c)
        IN  /\ eventSource[c] = 0 => st1 = st0
            /\ st2 = st1
            /\ st1.es[c] = 0
            /\ eventSource[c] # 0 =>
                 /\ st2.conns[eventSource[c]].closeCalls
                      = conns[eventSource[c]].closeCalls + 1
                 /\ st2.conns[eventSource[c]].readyState = "closed"
                 /\ st2.ops = <<Call("close", eventSource[c])>>

\* A disconnect has just closed an open stream, and nothing is held.
C3_Witness ==
    /\ Len(ops) = 1 /\ ops[1].op = "close"
    /\ conns[ops[1].arg].closeCalls = 1
    /\ eventSource[conns[ops[1].arg].client] = 0

\* C4, as claimed: an error event on an open stream leaves the client
\* without a connection that is not closed (the session is Idle).
C4_ErrorGoesIdle ==
    [][\A k \in 1..Len(conns) : \A fatal \in BOOLEAN :
          (conns[k].readyState = "open" /\ EsError(k, fatal))
          => ~(/\ eventSource'[conns[k].client] # 0
               /\ conns'[eventSource'[conns[k].client]].readyState
                    # "closed")]_vars

\* C4, amended: an error event on an open stream is handed to the error
\* callback and to nothing else; this layer constructs no EventSource and
\* closes none, and the client keeps holding the one it held, which the
\* transport has either closed or is reconnecting.
C4_ErrorKeepsConnection ==
    [][\A k \in 1..Len(conns) : \A fatal \in BOOLEAN :
          (conns[k].readyState = "open" /\ EsError(k, fatal))
          => (/\ ops' = <<Call("onError", k)>>
              /\ eventSource' = eventSource
              /\ Len(conns') = Len(conns)
              /\ \A j \in 1..Len(conns) :
                    /\ conns'[j].closeCalls = conns[j].closeCalls
                    /\ j # k => conns'[j] = conns[j]
              /\ conns'[k].readyState \in {"connecting", "closed"})]_vars

\* After frames were streamed on the only connection, an error event was
\* reported and the connection, still held, is reconnecting.
C4_Witness ==
    /\ Len(conns) = 1 /\ frameCount > 0
    /\ ops = <<Call("onError", 1)>>
    /\ eventSource[apiClient] = 1
    /\ conns[1].readyState = "connecting" /\ conns[1].closeCalls = 0

IsControl(m) ==
    m.json = "object" /\ (m.type = "connected" \/ m.type = "heartbeat")

\* C5: a 'connected' or 'heartbeat' message on an open stream calls neither
\* onData nor a renderer, emits no status, and leaves the frame counter, the
\* window start, the spectrum canvas and the waterfall buffer as they were.
C5_ControlIgnored ==
    [][\A k \in 1..Len(conns) : \A m \in MetricMessages :
          (IsControl(m) /\ EsMessage(k, m))
          => (/\ ops' = <<Call("onmessage", 0)>>
              /\ UNCHANGED <<frameCount, lastTime, statusData,
                             spectrumCanvas, waterfallData,
                             waterfallFreqBins, written>>)]_vars

\* A message was discarded mid-stream, when a frame would have closed the
\* metrics window and scrolled the waterfall.
C5_Witness ==
    /\ ops = <<Call("onmessage", 0)>>
    /\ eventSource[apiClient] # 0
    /\ conns[eventSource[apiClient]].readyState = "open"
    /\ frameCount > 0 /\ now - lastTime >= 1000
    /\ Len(waterfallData) = waterfallHeight /\ Len(written) > 0

\* The message has the structure of a frame.
CarriesFrame(m) ==
    m.json = "object" /\ m.dc = "string" /\ m.peakType = "number"

\* C6: on the global and on the per-device stream alike, a message that is
\* no control message reaches onData exactly when it carries a non-empty
\* data_compressed and a peak_frequency_hz of number type; any other message
\* is dropped, the connection stays as it is and onError is not called.
C6_FrameFilter ==
    [][\A k \in 1..Len(conns) : \A m \in FilterMessages :
          (~IsControl(m) /\ EsMessage(k, m))
          => (/\ (\E i \in 1..Len(ops') : ops'[i].op = "onData")
                    <=> CarriesFrame(m)
              /\ \A i \in 1..Len(ops') : ops'[i].op # "onError"
              /\ UNCHANGED <<eventSource, conns>>)]_vars

\* The per-device stream has forwarded a frame after the global stream had.
C6_Witness ==
    /\ Len(ops) >= 2 /\ ops[2].op = "onData"
    /\ Len(conns) >= 2 /\ conns[1].kind = "global"
    /\ conns[1].closeCalls = 1
    /\ eventSource[apiClient] # 0
    /\ conns[eventSource[apiClient]].kind = "device"
    /\ conns[eventSource[apiClient]].readyState = "open"
    /\ frameCount >= 2

\* C7: a frame whose payload does not decode (atob or inflate fails, the
\* byte length is no multiple of 4, or nothing is inflated) leaves the
\* waterfall buffer and its recorded width as they were, draws the grid but
\* no line on a visible spectrum, and leaves the connection open.
C7_DecodeFailureDrops ==
    [][\A k \in 1..Len(conns) : \A m \in FrameMessages :
          (m.payload \in BadPayloads /\ CarriesFrame(m) /\ EsMessage(k, m))
          => (/\ UNCHANGED <<waterfallData, waterfallFreqBins, written>>
              /\ HasCanvas("frequency") =>
                    (spectrumCanvas'.grid /\ spectrumCanvas'.line = <<>>)
              /\ UNCHANGED <<eventSource, conns>>
              /\ conns'[k].readyState = "open")]_vars

\* Mid-stream, with rows already in the waterfall, a frame reached both
\* renderers and left a grid without a line.
C7_Witness ==
    /\ Len(ops) = 4 /\ ops[4].op = "renderSpectrogram"
    /\ spectrumCanvas.grid /\ spectrumCanvas.line = <<>>
    /\ Len(waterfallData) = waterfallHeight /\ Len(written) >= 1
    /\ eventSource[apiClient] # 0
    /\ conns[eventSource[apiClient]].readyState = "open"

\* C8: the waterfall buffer is either unallocated or waterfallHeight rows
\* deep, and once it is waterfallHeight rows deep it stays so.
C8_WaterfallDepth ==
    /\ [](Len(waterfallData) \in {0, waterfallHeight})
    /\ [][Len(waterfallData) = waterfallHeight
            => Len(waterfallData') = waterfallHeight]_vars

\* The buffer has overflowed, after a reconnect and with the spectrum chart
\* hidden.
C8_Witness ==
    /\ Len(waterfallData) = waterfallHeight
    /\ Len(written) > waterfallHeight
    /\ Len(conns) >= 2
    /\ ~showChart["frequency"]

\* C9: with k slices written since the allocation, the last min(k, H) rows
\* of the buffer are the last min(k, H) slices in arrival order, the newest
\* in the last row, and the rows before them are -100 dB rows of the recorded
\* width.
C9_ArrivalOrder ==
    Len(waterfallData) = waterfallHeight =>
        LET k == Min(Len(written), waterfallHeight)
        IN  \A i \in 1..waterfallHeight :
                waterfallData[i] =
                    IF i <= waterfallHeight - k
                    THEN [j \in 1..waterfallFreqBins |-> -100]
                    ELSE written[Len(written) - waterfallHeight + i]

\* More than H slices were written, the discarded one differing from the
\* oldest one kept.
C9_Witness ==
    /\ Len(written) = waterfallHeight + 1
    /\ written[1] # written[2]
    /\ written[waterfallHeight] # written[waterfallHeight + 1]

\* C10: the committed settings of both charts satisfy
\* 0 <= minFreqKHz < maxFreqKHz <= 200.
C10_CommittedRange ==
    \A c \in Charts :
        /\ 0 <= settings[c].minFreqKHz
        /\ settings[c].minFreqKHz < settings[c].maxFreqKHz
        /\ settings[c].maxFreqKHz <= 200

\* Both charts have a committed range other than the initial one.
C10_Witness ==
    /\ settings["frequency"] = [minFreqKHz |-> 100, maxFreqKHz |-> 200]
    /\ settings["spectrogram"] = [minFreqKHz |-> 0, maxFreqKHz |-> 100]

\* C11: a proposal with min >= max is rejected: handleApply leaves the
\* committed settings and the open panel as they are (and the Apply button is
\* disabled); no staged bound is ever outside [0, 200]; and a keystroke that
\* is not a number, or a number outside [0, 200], is not accepted: the
\* change handlers leave the staged values and the error as they were.
C11_InvalidRejected ==
    \A c \in Charts :
        /\ tempSettings[c].minFreqKHz \in 0..200
        /\ tempSettings[c].maxFreqKHz \in 0..200
        /\ (PanelShown(c)
              /\ tempSettings[c].minFreqKHz >= tempSettings[c].maxFreqKHz)
             => /\ handleApply(c) = [settings |-> settings[c],
                                     isOpen |-> TRUE]
                /\ ApplyDisabled(PanelState(c))
        /\ PanelShown(c) =>
             \A v \in Inputs \ {""} :
                (\/ ParseFloat(v).nan
                 \/ ParseFloat(v).value < 0
                 \/ ParseFloat(v).value > 200)
                => /\ handleMinFreqChange(PanelState(c), v) = PanelState(c)
                   /\ handleMaxFreqChange(PanelState(c), v) = PanelState(c)

\* An open panel stages an inverted range that differs from the committed
\* one.
C11_Witness ==
    /\ PanelShown("frequency")
    /\ tempSettings["frequency"] = [minFreqKHz |-> 200, maxFreqKHz |-> 100]
    /\ settings["frequency"] = [minFreqKHz |-> 0, maxFreqKHz |-> 100]

\* C12: Cancel sets the staged values of its panel back to the values
\* captured when the panel was opened, which are the committed settings of
\* that moment (nothing but the panel's own Apply, which closes it, changes
\* them while it is open), and leaves the committed settings as they are.
C12_CancelRestores ==
    [][\A c \in Charts :
          Cancel(c) => /\ tempSettings'[c] = settings[c]
                       /\ settings'[c] = settings[c]]_vars

\* C13: the canvas size is at least 200 pixels wide and 150 pixels high in
\* every state, whatever box the container has when the size is recomputed,
\* an empty one included.
C13_SizeFloor ==
    canvasSize.width >= 200 /\ canvasSize.height >= 150

\* The size has been recomputed for a container without extent.
C13_Witness ==
    /\ ops = <<Call("setCanvasSize", 0)>>
    /\ containerRect.width = 0 /\ containerRect.height = 0
    /\ canvasSize = [width |-> 200, height |-> 150]

\* C14: for every frame drawn on the spectrum, the peak marker is drawn
\* exactly when the frame's peak frequency lies within the chart's range
\* [min, max] kHz, and then at x = padding + ((peakKHz - min) / (max - min))
\* * plotWidth (in thousandths of a pixel here).
C14_PeakMarker ==
    [][\A k \in 1..Len(conns) : \A m \in RangeMessages :
          (/\ EsMessage(k, m) /\ IsFrame(m) /\ HasCanvas("frequency")
           /\ m.payload \in GoodPayloads)
          => LET min == settings["frequency"].minFreqKHz
                 max == settings["frequency"].maxFreqKHz
                 plotWidth == canvasSize.width - 80
                 within == m.peak >= min * 1000 /\ m.peak <= max * 1000
             IN  /\ (spectrumCanvas'.marker # -1) <=> within
                 /\ within =>
                      spectrumCanvas'.peakX =
                        40000 + ((m.peak - min * 1000) * plotWidth)
                                  \div (max - min)]_vars

\* C15: every frame a stream forwards is counted, with or without a visible
\* chart and whether or not it decodes.  A frame that arrives 1000 ms or
\* more after the window start emits one status whose fps is the number of
\* frames counted since the last emission, this one included, and whose
\* other fields are this frame's; the counter is then 0 and the window
\* starts now.  An earlier frame emits nothing and adds one to the counter.
C15_MetricsWindow ==
    [][\A k \in 1..Len(conns) : \A m \in WindowMessages :
          (EsMessage(k, m) /\ IsFrame(m))
          => IF now - lastTime >= 1000
             THEN /\ statusData' = [fps |-> frameCount + 1,
                                    peakFreq |-> m.peak,
                                    peakAmplitude |-> m.peak_magnitude_db,
                                    dataRate |-> m.data_size_bytes]
                  /\ Cardinality({i \in 1..Len(ops') :
                                    ops'[i].op = "status"}) = 1
                  /\ frameCount' = 0
                  /\ lastTime' = now
             ELSE /\ frameCount' = frameCount + 1
                  /\ UNCHANGED <<lastTime, statusData>>
                  /\ \A i \in 1..Len(ops') : ops'[i].op # "status"]_vars

\* With both charts hidden, a frame that does not decode has closed a window
\* of three frames.
C15_Witness ==
    /\ ~showChart["frequency"] /\ ~showChart["spectrogram"]
    /\ ops = <<Call("onmessage", 0), Call("onData", 0), Call("status", 3)>>
    /\ statusData.fps = 3 /\ statusData.peakFreq = 90000
    /\ frameCount = 0 /\ lastTime = now /\ now >= 1000

\* C16: once the view is torn down, or isConnected or isPlaying is false, no
\* connection is left open: every EventSource the view has created,
\* on the current APIClient or on one that a base URL change replaced, is
\* closed and no client holds one.
C16_NoLeak ==
    (~mounted \/ ~isConnected \/ ~isPlaying)
        => /\ \A k \in 1..Len(conns) : conns[k].readyState = "closed"
           /\ \A c \in Clients : eventSource[c] = 0

\* The view was torn down while it streamed on the second APIClient, after
\* it had streamed on the first.
C16_Witness ==
    /\ ~mounted /\ isConnected /\ isPlaying
    /\ Len(conns) = 2
    /\ conns[1].client = 1 /\ conns[2].client = 2
    /\ conns[1].closeCalls = 1 /\ conns[2].closeCalls = 1
    /\ ops = <<Call("close", 2)>>

\* C17: every frame is rendered with the range committed for its chart: the
\* spectrum's axis spans the committed range and its line covers the index
\* window of that range, and the waterfall's recorded width is the bin
\* count of its committed range (a committed change of that count
\* reallocates the buffer on the next frame).
C17_CommittedRangeRendered ==
    [][\A k \in 1..Len(conns) : \A m \in RangeMessages :
          (EsMessage(k, m) /\ IsFrame(m) /\ m.payload \in GoodPayloads)
          => LET n  == Len(m.payload.floats)
                 fr == settings["frequency"]
                 sp == settings["spectrogram"]
             IN  /\ HasCanvas("frequency") =>
                      /\ spectrumCanvas'.axis
                           = <<fr.minFreqKHz, fr.maxFreqKHz>>
                      /\ \A i \in 1..Len(spectrumCanvas'.line) :
                            /\ spectrumCanvas'.line[i][1]
                                 >= minFreqIndex(fr, m.sample_rate, n)
                            /\ spectrumCanvas'.line[i][1]
                                 < maxFreqIndex(fr, m.sample_rate, n)
                 /\ HasCanvas("spectrogram") =>
                      waterfallFreqBins'
                        = maxFreqIndex(sp, m.sample_rate, n)
                          - minFreqIndex(sp, m.sample_rate, n)]_vars

C19_OnlyOwnApply ==
    [][\A c \in Charts :
          settings'[c] # settings[c]
          => /\ Apply(c)
             /\ settings'[c] = tempSettings[c]
             /\ tempSettings[c].minFreqKHz < tempSettings[c].maxFreqKHz
             /\ \A d \in Charts \ {c} : settings'[d] = settings[d]]_vars

\* The spectrum's range was committed from its panel while the waterfall's
\* panel is open with typed values that never were committed.
C19_Witness ==
    /\ settings["frequency"] = [minFreqKHz |-> 100, maxFreqKHz |-> 200]
    /\ settings["spectrogram"] = InitialSettings
    /\ PanelShown("spectrogram")
    /\ tempSettings["spectrogram"] = [minFreqKHz |-> 0, maxFreqKHz |-> 100]
    /\ ~showSettings["frequency"]

\* C20: while a panel stays open, a change of the settings it is given
\* leaves its staged values as they are, and its staged values change only
\* by the user's typing into one of its two fields.
C20_StagedInsulated ==
    [][\A c \in Charts :
          (PanelShown(c) /\ PanelShown(c)')
          => /\ settings'[c] # settings[c]
                  => tempSettings'[c] = tempSettings[c]
             /\ tempSettings'[c] # tempSettings[c]
                  => \E v \in Inputs : TypeMin(c, v) \/ TypeMax(c, v)]_vars

\* An open panel holds typed values while the settings it is given have
\* just been changed to something else.
C20_Witness ==
    /\ ops = <<Call("settings", 0)>>
    /\ PanelShown("frequency") /\ initialized["frequency"]
    /\ tempSettings["frequency"] = [minFreqKHz |-> 100, maxFreqKHz |-> 200]
    /\ settings["frequency"] = [minFreqKHz |-> 0, maxFreqKHz |-> 100]

\* C21: while a panel is open, staged values that violate min < max come
\* with a non-empty error; an empty error implies staged min < max.
C21_ErrorShown ==
    \A c \in Charts :
        (PanelShown(c)
          /\ tempSettings[c].minFreqKHz >= tempSettings[c].maxFreqKHz)
        => error[c] \in {MinError, MaxError}

\* After a maximum of 0 and then a minimum of 0 were typed, the panel stages
\* an empty range and shows the reason the minimum handler gave.
C21_Witness ==
    /\ PanelShown("spectrogram")
    /\ tempSettings["spectrogram"] = [minFreqKHz |-> 0, maxFreqKHz |-> 0]
    /\ error["spectrogram"] = MinError

\* C27: whenever the staged values of an open panel satisfy
\* 0 <= min < max <= 200, the Apply button is enabled.
C27_ValidCanApply ==
    \A c \in Charts :
        (/\ PanelShown(c)
         /\ 0 <= tempSettings[c].minFreqKHz
         /\ tempSettings[c].minFreqKHz < tempSettings[c].maxFreqKHz
         /\ tempSettings[c].maxFreqKHz <= 200)
        => ~ApplyDisabled(PanelState(c))

\* C22: a message whose handling throws (text that is no JSON, the value
\* null, a frame whose rendering fails) leaves every EventSource and the
\* client's reference to it as they were, does not call the error callback,
\* and the stream it came from is still open for the next message.
C22_ExceptionAbsorbed ==
    [][\A k \in 1..Len(conns) : \A m \in FaultMessages :
          EsMessage(k, m)
          => (/\ \A i \in 1..Len(ops') : ops'[i].op # "onError"
              /\ UNCHANGED <<eventSource, conns>>
              /\ conns'[k].readyState = "open")]_vars

\* On an open stream a frame was counted after the frame before it had made
\* the waterfall renderer throw: nothing was ever allocated, the counter
\* stands at two, and the last handler logged the exception it caught.
C22_Witness ==
    /\ eventSource[apiClient] # 0
    /\ conns[eventSource[apiClient]].readyState = "open"
    /\ showChart["spectrogram"] /\ frameCount = 2
    /\ Len(waterfallData) = 0
    /\ Len(ops) > 0 /\ ops[Len(ops)] = Call("console.error", 0)
    /\ \E i \in 1..Len(ops) : ops[i].op = "renderSpectrogram"

\* C23: every change of the canvas container's size leaves a debounced
\* recomputation pending (notifications of one burst restart the same
\* timeout, so that one recomputation runs after the last of them).
C23_ResizeDebounced ==
    [][containerRect' # containerRect => resizeTimeout']_vars

\* C24 as stated: unless the view is torn down first, the timeout set at
\* mount eventually fires, and its firing is a size recomputation, which
\* stores the size derived from the container's box.
C24_InitialSizing ==
    /\ <>(~mounted \/ ~timer)
    /\ [][(timer /\ ~timer' /\ mounted')
            => (/\ ops' = <<Call("setCanvasSize", 0)>>
                /\ canvasSize' = updateCanvasSize(containerRect))]_vars

\* C24, amended: the timeout set at mount eventually fires unless the view is
\* torn down first, and when it fires while a chart is shown it runs a size
\* recomputation, which stores the size derived from the container's box.
C24_InitialSizingShown ==
    /\ <>(~mounted \/ ~timer)
    /\ [][(timer /\ ~timer' /\ mounted' /\ HasContainer)
            => (/\ ops' = <<Call("setCanvasSize", 0)>>
                /\ canvasSize' = updateCanvasSize(containerRect))]_vars

\* The timeout of the mount has fired with both charts shown and the
\* container still observed: the canvas has left its initial 800 x 400 for
\* the size of the laid-out container.
C24_Witness ==
    /\ mounted /\ ~timer /\ observed /\ ~resizeTimeout
    /\ showChart["frequency"] /\ showChart["spectrogram"]
    /\ ops = <<Call("setCanvasSize", 0)>>
    /\ canvasSize = [width |-> 638, height |-> 478]

\* C25 as stated: a rendered frame whose index window has n bins is plotted
\* at the indices minIdx, minIdx + stride, ... below maxIdx with
\* stride = max(1, floor(n / 800)), and these are at most 800 points.
C25_AtMost800 ==
    [][\A k \in 1..Len(conns) : \A m \in DecimateMessages :
          (EsMessage(k, m) /\ HasCanvas("frequency"))
          => LET len    == Len(m.payload.floats)
                 range  == ClosureSettings("frequency")
                 minIdx == minFreqIndex(range, m.sample_rate, len)
                 maxIdx == maxFreqIndex(range, m.sample_rate, len)
                 n      == maxIdx - minIdx
                 stride == Max(1, n \div 800)
                 line   == spectrumCanvas'.line
                 strided == {i \in minIdx..(maxIdx - 1) :
                               (i - minIdx) % stride = 0}
             IN  /\ {line[j][1] : j \in 1..Len(line)} = strided
                 /\ Len(line) = Cardinality(strided)
                 /\ Len(line) <= 800]_vars

\* C25, amended: the same stride, and fewer than 1600 points whatever the
\* size of the index window.
C25_Below1600 ==
    [][\A k \in 1..Len(conns) : \A m \in DecimateMessages :
          (EsMessage(k, m) /\ HasCanvas("frequency"))
          => LET len    == Len(m.payload.floats)
                 range  == ClosureSettings("frequency")
                 minIdx == minFreqIndex(range, m.sample_rate, len)
                 maxIdx == maxFreqIndex(range, m.sample_rate, len)
                 n      == maxIdx - minIdx
                 stride == Max(1, n \div 800)
                 line   == spectrumCanvas'.line
                 strided == {i \in minIdx..(maxIdx - 1) :
                               (i - minIdx) % stride = 0}
             IN  /\ {line[j][1] : j \in 1..Len(line)} = strided
                 /\ Len(line) = Cardinality(strided)
                 /\ Len(line) <= 2 * 800 - 1]_vars

\* A spectrum of 1599 bins, all below 200 kHz, was plotted bin by bin.
C25_Witness ==
    /\ Len(ops) > 0 /\ ops[1] = Call("onmessage", 0)
    /\ Len(spectrumCanvas.line) = 1599
    /\ spectrumCanvas.line[1599][1] = 1598

\* C26: for a frame that decodes to n >= 1 bins, whatever its sample rate,
\* every range with 0 <= min < max <= 200 gives 0 <= minIdx <= maxIdx <= n;
\* the waterfall renderer does not throw, and afterwards every row of the
\* buffer has the recorded number of cells.
C26_IndicesInBounds ==
    [][\A k \in 1..Len(conns) : \A m \in FaultMessages :
          (/\ EsMessage(k, m) /\ IsFrame(m)
           /\ decompressFFTData(m.payload).ok
           /\ Len(decompressFFTData(m.payload).data) >= 1
           /\ HasCanvas("spectrogram"))
          => LET n == Len(decompressFFTData(m.payload).data)
             IN  /\ m.sample_rate # 0
                 /\ \A r \in Ranges :
                       /\ 0 <= minFreqIndex(r, m.sample_rate, n)
                       /\ minFreqIndex(r, m.sample_rate, n)
                            <= maxFreqIndex(r, m.sample_rate, n)
                       /\ maxFreqIndex(r, m.sample_rate, n) <= n
                 /\ \A i \in 1..Len(ops') : ops'[i].op # "console.error"
                 /\ \A i \in 1..Len(waterfallData') :
                       Len(waterfallData'[i]) = waterfallFreqBins']_vars

\* C28: a step that connects, disconnects or switches the device (any step
\* that changes the connection flags, the selected device, the client's
\* EventSource or an EventSource's state) leaves the waterfall buffer and
\* its recorded width as they were.
C28_BufferSurvivesReconnect ==
    [][(\/ isConnected' # isConnected \/ isPlaying' # isPlaying
        \/ currentDevice' # currentDevice
        \/ eventSource' # eventSource \/ conns' # conns)
       => UNCHANGED <<waterfallData, waterfallFreqBins>>]_vars

\* The device was switched on a running stream: a second EventSource has
\* just been opened, and the row the first stream wrote last is still at the
\* bottom of the buffer.
C28_Witness ==
    /\ Len(conns) = 2 /\ conns[1].closeCalls >= 1
    /\ conns[2].kind = "device" /\ eventSource[apiClient] = 2
    /\ Len(ops) > 0 /\ ops[Len(ops)].op = "open"
    /\ Len(written) >= 1 /\ Len(waterfallData) = waterfallHeight
    /\ waterfallData[waterfallHeight] = written[Len(written)]
    /\ waterfallFreqBins = Len(written[Len(written)])

\* C29: the frame counter and the window start change, and a status update
\* is emitted, only in a step in which a frame reaches onData; connecting,
\* disconnecting, switching device and the passing of time leave them alone.
C29_OnlyFramesCount ==
    [][(\/ frameCount' # frameCount \/ lastTime' # lastTime
        \/ statusData' # statusData
        \/ \E i \in 1..Len(ops') : ops'[i].op = "status")
       => \E i \in 1..Len(ops') : ops'[i].op = "onData"]_vars

\* Two frames were counted on the first stream, more than a second has
\* passed, and the stream has just been reconnected: the counter still
\* stands at two and the window is still open, so that the first frame of
\* the new stream will report three.
C29_Witness ==
    /\ Len(conns) = 2 /\ conns[1].closeCalls >= 1
    /\ eventSource[apiClient] = 2
    /\ Len(ops) > 0 /\ ops[Len(ops)].op = "open"
    /\ frameCount = 2 /\ now - lastTime >= 1000

\* C30: the stored configuration, read as getStorageData reads it, always
\* holds the default server with its original URL and a currentServerId that
\* names a server of the list; deleteServer on the default server returns
\* false and changes nothing; deleting the current server makes the default
\* server current.
C30_DefaultServerKept ==
    /\ [](LET data == getStorageData(localStorage, defaultServers)
          IN  /\ \E i \in 1..Len(data.servers) :
                    /\ data.servers[i].id = DEFAULT_SERVERS[1].id
                    /\ data.servers[i].isDefault
                    /\ data.servers[i].url = DEFAULT_SERVERS[1].url
              /\ \E i \in 1..Len(data.servers) :
                    data.servers[i].id = data.currentServerId)
    /\ [][\A stored \in BOOLEAN :
            /\ DeleteServer(DEFAULT_SERVERS[1].id, stored)
                => (/\ ops' = <<Call("deleteServer", 0)>>
                    /\ UNCHANGED localStorage)
            /\ \A id \in ServerIds :
                  (/\ DeleteServer(id, stored) /\ stored
                   /\ ops' = <<Call("deleteServer", 1)>>
                   /\ getStorageData(localStorage, defaultServers)
                        .currentServerId = id)
                  => localStorage'.currentServerId = DEFAULT_SERVERS[1].id]_vars

\* The second default server was made current, renamed and deleted, and so
\* was a server added later: only the default server is left, renamed but
\* with its URL, and it is the current one.
C30_Witness ==
    /\ localStorage.present
    /\ ops = <<Call("deleteServer", 1)>>
    /\ Len(localStorage.servers) = 1
    /\ localStorage.servers[1].name = "Lab"
    /\ localStorage.servers[1].url = DEFAULT_SERVERS[1].url
    /\ localStorage.currentServerId = DEFAULT_SERVERS[1].id

====
